---- MODULE Spec2Model ----
(***************************************************************************)
(* Model of the bubbler drink-machine controller (Mstrodl/bubbler).        *)
(*                                                                         *)
(*   src/src/routes/machine.rs  drop, run_motor, wait_until_line_hits_value *)
(*   src/src/routes/config.rs   Latch::new (worker thread), Latch::open,    *)
(*                              ConfigData::new                            *)
(*   src/src/scheduler.rs       RealtimeGuard                              *)
(*   src/src/routes.rs          the /drop, /health and /slots handlers and  *)
(*                              the config mutex                           *)
(*                                                                         *)
(* Environment assumptions of the model:                                   *)
(*  - a write to a vend actuator may fail (run_motor handles it); a failed  *)
(*    write leaves the line value as it was;                               *)
(*  - whether the process may raise its scheduling class is fixed at        *)
(*    start-up: it has the privilege (CAP_SYS_NICE, e.g. root) and every    *)
(*    sched_setscheduler succeeds, or it has not (RLIMIT_RTPRIO 0,          *)
(*    RLIMIT_NICE 0) and the kernel refuses SCHED_FIFO to a thread that is  *)
(*    not in it already and refuses to take a thread out of SCHED_IDLE;     *)
(*  - a process that aborts stops all its threads; the lines stay as they   *)
(*    were at that moment;                                                  *)
(*  - a write to the latch line and the subscription to the events of a cam  *)
(*    line may fail; the code unwraps both results, so the failure is a     *)
(*    panic of the thread that made the call: it kills the latch worker     *)
(*    (the line stays as it was, the receiver of the channel is dropped) or *)
(*    unwinds the handler of the request;                                   *)
(*  - threads may be delayed arbitrarily: the clock may advance between any *)
(*    two steps, and a sleep ends at or after its wake-up time;             *)
(*  - the server runs its handlers on one worker thread or on two; the     *)
(*    threads start in the scheduling class the process was started in;    *)
(*  - a one-wire PIO file holds at start-up whatever it held before.        *)
(***************************************************************************)
EXTENDS Naturals, Integers, Sequences, FiniteSets, TLC

\* ---------------------------------------------------------------- bounds
\* number of configured slots
NumSlots == 2
\* number of /drop requests of a behaviour (each is one task of the server)
NumReqs == 2
\* the clock advances in steps of Quantum seconds, up to MaxTime
Quantum == 30
MaxTime == 120

\* ------------------------------------------------------ program constants
\* Latch::open: Instant::now() + Duration::from_secs(60)
LatchOpenSecs == 60
\* drop: Duration::from_millis(500) for the rising edge
RiseTimeoutMs == 500
\* drop: Duration::from_secs(10) for the falling edge
FallTimeoutSecs == 10
\* RealtimeGuard::set_priority: sched_priority when real_time
RtPriority == 10

Reqs == 1 .. NumReqs
\* actix worker threads that may run the handlers
Threads == {"w1", "w2"}
\* BUB_DROP_DELAY values tried
DropDelays == {100}

\* last instant the clock reaches
Horizon == (MaxTime \div Quantum) * Quantum

VARIABLES
    slots,        \* ConfigData.slots: Seq of [kind, cam]
    has_latch,    \* ConfigData.latch.is_some()
    drop_delay,   \* ConfigData.drop_delay (ms)
    rt_allowed,   \* the process has the privilege to raise its scheduling class
    workers,      \* number of worker threads of the HttpServer
    hist,         \* the histories `sent` and `latch_log` are kept (no step reads them)
    now,          \* the monotonic clock (Instant::now()), seconds
    lock,         \* AppData.config mutex: 0 free, else the request holding it
    pc,           \* per request: position in the handler / in machine::drop
    req_slot,     \* per request: DropRequest.slot
    result,       \* per request: `result` of drop / the value it returned
    early,        \* per request: drop left through the `return Err(err)` of the second de-energize
    entry_sched,  \* per request: scheduling class of its thread when drop was entered
    tx,           \* per request: the operations the transaction performed, in order
    sched,        \* per thread: [policy, priority] as set by sched_setscheduler
    aborted,      \* the process has aborted (a panic while unwinding from a panic)
    vend,         \* per slot: value of the vend line / PIO file
    chan,         \* the mpsc channel of the latch: Seq of Instants
    wpc,          \* latch worker thread: position in the loop
    instant,      \* latch worker: the `instant` it holds
    wnow,         \* latch worker: the `now` it read at line 50
    wake,         \* latch worker: end of the current thread::sleep
    pin,          \* latch line value
    sent,         \* history: every Latch::open: [t |-> send time, d |-> deadline]
    latch_log,    \* history: what the worker did: [ev, t, d]
    rpc,          \* the /health or /slots handler that holds the mutex: "idle", "health",
                  \* "slots", and "health_listed", "slots_listed" once its listing is built
    report        \* the slot listing that handler built

cfg_vars   == <<slots, has_latch, drop_delay, rt_allowed, workers, hist>>
req_vars   == <<pc, req_slot, result, early, entry_sched, tx>>
latch_vars == <<chan, wpc, instant, wnow, wake, pin, sent, latch_log>>
read_vars  == <<rpc, report>>
vars == <<slots, has_latch, drop_delay, rt_allowed, workers, hist, now, lock, pc, req_slot,
          result, early, entry_sched, tx, sched, aborted, vend, chan, wpc, instant, wnow,
          wake, pin, sent, latch_log, rpc, report>>

\* a history with one more entry, where histories are kept
record(log, e) == IF hist THEN Append(log, e) ELSE log

\* the threads of the process take steps while the process lives
running == ~aborted

\* the thread that runs the handler of request r: with one worker thread every
\* request; with two, the first request on one and the later ones on the other
worker_of(r) == IF workers = 1 \/ r = 1 THEN "w1" ELSE "w2"

\* ------------------------------------------------------------ ConfigData
OWFS == [kind |-> "OWFS", cam |-> FALSE]
GPIO(cam) == [kind |-> "GPIO", cam |-> cam]

\* ConfigData::new: BUB_SLOT_ADDRESSES set -> every slot is OWFS; otherwise
\* every slot is GPIO and the first k (the length of BUB_CAM_PINS) have a cam
ConfigData_new ==
    { [i \in 1 .. NumSlots |-> OWFS] } \cup
    { [i \in 1 .. NumSlots |-> GPIO(i <= k)] : k \in 0 .. NumSlots }

\* ------------------------------------------------------------- scheduler
SchedDefault == [policy |-> "SCHED_OTHER", priority |-> 0]

\* classes the process may have been started in (main never sets one): the
\* default, `chrt -b 0`, `chrt -i 0`, `chrt -r 5` and `chrt -f 10`, the last
\* being the class the guard itself asks for
StartClasses ==
    {SchedDefault, [policy |-> "SCHED_BATCH", priority |-> 0],
     [policy |-> "SCHED_IDLE", priority |-> 0],
     [policy |-> "SCHED_RR", priority |-> 5],
     [policy |-> "SCHED_FIFO", priority |-> 10]}

set_priority_never_elevates(real_time) == SchedDefault

\* RealtimeGuard::set_priority: the class sched_setscheduler is asked for
set_priority(real_time) ==
    [policy   |-> IF real_time THEN "SCHED_FIFO" ELSE "SCHED_OTHER",
     priority |-> IF real_time THEN RtPriority ELSE 0]

sched_error_ignored(cur, real_time) == TRUE

\* RealtimeGuard::set_priority: `res == -1` is when it returns Err. For a
\* thread in class cur of a process without the privilege, the kernel allows
\* SCHED_FIFO only when it changes no policy and raises no priority, and
\* SCHED_OTHER unless the thread is in SCHED_IDLE.
sched_setscheduler_ok(cur, real_time) ==
    \/ rt_allowed
    \/ real_time /\ cur.policy = "SCHED_FIFO" /\ cur.priority >= RtPriority
    \/ ~real_time /\ cur.policy # "SCHED_IDLE"

\* ---------------------------------------------------------------- machine
Op(op, arg, ok) == [op |-> op, arg |-> arg, ok |-> ok]

slot_is_bad_no_zero(slot) == slot > Len(slots)

\* drop: `slot > config.slots.len() || slot == 0`
slot_is_bad(slot) == slot > Len(slots) \/ slot = 0

\* drop: `&config.slots[slot - 1]` (sequences here are 1-based)
slot_config(slot) == slots[slot]

run_motor_ignores_error(ok) == "Success"

\* run_motor: Ok(DropState::Success) or Err(DropError::MotorFailed)
run_motor(ok) == IF ok THEN "Success" ELSE "MotorFailed"

\* value of the line after a write of `state` that succeeded or not
line_after(old, state, ok) == IF ok THEN (IF state THEN 1 ELSE 0) ELSE old

\* what `tokio::time::timeout(timeout, event_handle.next())` resolves with:
\* the stream gives an edge event (Some(Ok(event))), the stream gives an error
\* or ends (Some(Err(..)) or None) with no edge, or the timer elapses first
StreamItems == {"event", "closed", "elapsed"}

\* `line.async_events(..).unwrap()`: the request for the events of the line
\* panics when it fails
async_events(subscribed) == IF subscribed THEN "Ok" ELSE "panic"

wait_never_times_out(subscribed, next) ==
    IF async_events(subscribed) = "panic" THEN "panic" ELSE "Ok"

\* wait_until_line_hits_value: panics when the events of the line cannot be
\* requested; else Err(MotorTimeout) when the timer elapses before next()
\* resolves, and Ok(()) whatever next() resolved with: the item is dropped
\* unread, so an error or the end of the stream counts like an edge
wait_until_line_hits_value(subscribed, next) ==
    IF async_events(subscribed) = "panic" THEN "panic"
    ELSE IF next = "elapsed" THEN "MotorTimeout" ELSE "Ok"

\* what the history keeps of the falling-edge wait: its timeout and what
\* next() gave; of the rising-edge wait, whose result is only logged, it keeps
\* the timeout and whether next() resolved before it
Waited(timeout, next) == [timeout |-> timeout, next |-> next]


\* ------------------------------------------------------------------ Init
\* the states after ConfigData::new and the start of the server, with the
\* histories kept (h) or not
Start(h) ==
    /\ hist = h
    /\ slots \in ConfigData_new
    /\ has_latch \in BOOLEAN
    /\ drop_delay \in DropDelays
    /\ rt_allowed \in BOOLEAN
    /\ workers \in 1 .. Cardinality(Threads)
    /\ now = 0
    /\ lock = 0
    /\ pc = [r \in Reqs |-> "idle"]
    /\ req_slot = [r \in Reqs |-> 0]
    /\ result = [r \in Reqs |-> "none"]
    /\ early = [r \in Reqs |-> FALSE]
    /\ entry_sched = [r \in Reqs |-> SchedDefault]
    /\ tx = [r \in Reqs |-> <<>>]
    /\ \E c \in StartClasses : sched = [t \in Threads |-> c]
    /\ aborted = FALSE
    \* a GPIO vend line is requested as an output with value 0; a PIO file is
    \* not written by ConfigData::new
    /\ vend \in [1 .. NumSlots -> {0, 1}]
    /\ \A i \in 1 .. NumSlots : slots[i].kind = "GPIO" => vend[i] = 0
    /\ chan = <<>>
    /\ wpc = "recv"
    /\ instant = 0
    /\ wnow = 0
    /\ wake = 0
    /\ pin = 0
    /\ sent = <<>>
    /\ latch_log = <<>>
    /\ rpc = "idle"
    /\ report = <<>>

Init == Start(TRUE)

\* pcs of a request that has been accepted and has not yet passed latch.open()
BeforeOpen == {"lock", "drop", "latch"}

\* ------------------------------------------------------ routes.rs: /drop
\* a POST /drop reaches the server and its task waits for the config mutex;
\* requests are numbered in their order of arrival
\* tokio::sync::Mutex::lock completes only when no MutexGuard is alive
mutex_never_contended == TRUE
mutex_free == lock = 0

\* the mutex once the MutexGuard of request r has been dropped
mutex_leaked(r) == r
mutex_after_guard_drop(r) == 0

\* the mutex while machine::drop runs for request r: `config` (the MutexGuard)
\* is borrowed by the call and lives to the end of the block
mutex_released_after_read(r) == 0
mutex_during_drop(r) == r

\* the holder recorded for a /health or /slots handler
reader == NumReqs + 1

\* pcs at which the task of a request is not running: not started, suspended
\* in an .await (the mutex; the timeout of an edge wait, machine.rs:124-126),
\* or gone
Suspended == {"idle", "lock", "rise", "fall", "done", "panicked"}
\* the worker thread of request r can poll its task: no other task of that
\* thread is running (thread::sleep and the writes block the thread)
thread_free(r) ==
    \A q \in Reqs : (q # r /\ worker_of(q) = worker_of(r)) => pc[q] \in Suspended

Arrive(r) ==
    /\ running
    /\ pc[r] = "idle"
    /\ \A q \in Reqs : q < r => pc[q] # "idle"
    /\ thread_free(r)
    /\ now + LatchOpenSecs <= Horizon
    /\ pc' = [pc EXCEPT ![r] = "lock"]
    /\ UNCHANGED <<cfg_vars, aborted, read_vars, now, lock, req_slot, result, early, entry_sched, tx,
                   sched, vend, latch_vars>>

\* `let config = data.config.lock().await;` then `req_body.slot` = s is what
\* machine::drop is called with
Lock(r, s) ==
    /\ running
    /\ pc[r] = "lock"
    /\ mutex_free
    /\ lock' = r
    /\ req_slot' = [req_slot EXCEPT ![r] = s]
    /\ pc' = [pc EXCEPT ![r] = "drop"]
    /\ UNCHANGED <<cfg_vars, aborted, read_vars, now, result, early, entry_sched, tx, sched, vend,
                   latch_vars>>

\* the task of request r is over (response sent, or unwound by a panic): its
\* locals are gone
TaskEnds(r) ==
    /\ req_slot' = [req_slot EXCEPT ![r] = 0]
    /\ result' = [result EXCEPT ![r] = "none"]
    /\ early' = [early EXCEPT ![r] = FALSE]
    /\ entry_sched' = [entry_sched EXCEPT ![r] = SchedDefault]
    /\ tx' = [tx EXCEPT ![r] = <<>>]

\* end of the block: drop has returned, the MutexGuard is dropped and the
\* response is sent; the task and its locals are gone
Unlock(r) ==
    /\ running
    /\ pc[r] = "returned"
    /\ lock' = mutex_after_guard_drop(r)
    /\ pc' = [pc EXCEPT ![r] = "done"]
    /\ TaskEnds(r)
    /\ UNCHANGED <<cfg_vars, aborted, read_vars, now, sched, vend, latch_vars>>

\* ------------------------------------------- routes.rs: /health, /slots
\* what reading the stocked line of a GPIO slot (`stocked.get_value()`) or
\* opening the id file of a one-wire slot gives: rd[i] for the i-th slot
Stocked == [1 .. NumSlots -> {"0", "1", "Err"}]

\* is_stocked: `stocked.get_value().unwrap()` panics when the line cannot be read
is_stocked_panics(i, rd) == slots[i].kind = "GPIO" /\ rd[i] = "Err"

\* is_stocked: GPIO `get_value().unwrap() == 1`; OWFS `File::open(..).is_ok()`
is_stocked(i, rd) ==
    IF slots[i].kind = "GPIO" THEN rd[i] = "1" ELSE rd[i] # "Err"

\* `format!("{}", slot)`: the text that names the i-th configured slot
display(i) == <<slots[i].kind, i>>

\* machine::get_slots_old: "Slot {slots.len() + 1} ({slot}) is stocked|empty",
\* slots being the Vec built so far
get_slots_old(rd) ==
    [i \in 1 .. Len(slots) |->
       [id |-> display(i), number |-> (i - 1) + 1, stocked |-> is_stocked(i, rd)]]

\* machine::get_slots: `.enumerate()` counts from 0 and `number: number as i32`;
\* the i-th element of a sequence here is the element of index i - 1 there
get_slots(rd) ==
    [i \in 1 .. Len(slots) |->
       [id |-> display(i), number |-> i - 1, stocked |-> is_stocked(i, rd)]]

\* GET /health or GET /slots: `let config = data.config.lock().await;`
routes_lock(kind) ==
    /\ running
    /\ rpc = "idle"
    /\ mutex_free
    /\ lock' = reader
    /\ rpc' = kind
    /\ UNCHANGED <<cfg_vars, aborted, report, now, req_vars, sched, vend, latch_vars>>

\* a panic of is_stocked unwinds the handler: no listing, no response, the
\* MutexGuard is dropped
routes_panic ==
    /\ lock' = mutex_after_guard_drop(reader)
    /\ rpc' = "idle"
    /\ report' = <<>>

\* GET /health: machine::get_slots_old
routes_health(rd) ==
    /\ running
    /\ rpc = "health"
    /\ IF \E i \in 1 .. Len(slots) : is_stocked_panics(i, rd)
         THEN routes_panic
         ELSE /\ report' = get_slots_old(rd)
              /\ rpc' = "health_listed"
              /\ lock' = lock
    /\ UNCHANGED <<cfg_vars, aborted, now, req_vars, sched, vend, latch_vars>>

\* GET /slots: machine::get_slots
routes_get_slots(rd) ==
    /\ running
    /\ rpc = "slots"
    /\ IF \E i \in 1 .. Len(slots) : is_stocked_panics(i, rd)
         THEN routes_panic
         ELSE /\ report' = get_slots(rd)
              /\ rpc' = "slots_listed"
              /\ lock' = lock
    /\ UNCHANGED <<cfg_vars, aborted, now, req_vars, sched, vend, latch_vars>>

\* the handler returns its response: `config` is dropped
routes_respond ==
    /\ running
    /\ rpc \in {"health_listed", "slots_listed"}
    /\ lock' = mutex_after_guard_drop(reader)
    /\ rpc' = "idle"
    /\ report' = <<>>
    /\ UNCHANGED <<cfg_vars, aborted, now, req_vars, sched, vend, latch_vars>>

\* ------------------------------------------------------ machine.rs: drop
\* lines 131-139: validation, slot lookup, `let mut result = Ok(Success)`
drop_validate(r) ==
    /\ running
    /\ pc[r] = "drop"
    /\ IF slot_is_bad(req_slot[r])
         THEN /\ result' = [result EXCEPT ![r] = "BadSlot"]
              /\ entry_sched' = [entry_sched EXCEPT ![r] = sched[worker_of(r)]]
              /\ pc' = [pc EXCEPT ![r] = "returned"]
              /\ UNCHANGED <<lock, req_slot, early, tx>>
         ELSE IF req_slot[r] \notin DOMAIN slots
              \* `config.slots[slot - 1]` out of range: panic, the guard of the
              \* mutex is dropped by the unwinding
         THEN /\ pc' = [pc EXCEPT ![r] = "panicked"]
              /\ lock' = mutex_after_guard_drop(r)
              /\ TaskEnds(r)
         ELSE /\ result' = [result EXCEPT ![r] = "Success"]
              /\ entry_sched' = [entry_sched EXCEPT ![r] = sched[worker_of(r)]]
              /\ pc' = [pc EXCEPT ![r] = "latch"]
              /\ lock' = mutex_during_drop(r)
              /\ UNCHANGED <<req_slot, early, tx>>
    /\ UNCHANGED <<cfg_vars, aborted, read_vars, now, sched, vend, latch_vars>>

\* Latch::open: `self.sender.send(Instant::now() + Duration::from_secs(60))`
open(t) == t + LatchOpenSecs

\* Sender::send gives Err once the Receiver is gone, which it is when the
\* worker thread that owns it has died; Latch::open unwraps the result
send_ok == wpc # "dead"

\* lines 140-142: `if let Some(latch) = config.latch.as_ref() { latch.open(); }`
\* A send that fails panics in Latch::open: the handler unwinds before the
\* guard is built, the MutexGuard is dropped, no outcome is returned.
drop_latch(r) ==
    /\ running
    /\ pc[r] = "latch"
    /\ IF has_latch /\ ~send_ok
         THEN /\ pc' = [pc EXCEPT ![r] = "panicked"]
              /\ lock' = mutex_after_guard_drop(r)
              /\ TaskEnds(r)
              /\ UNCHANGED <<chan, sent>>
         ELSE /\ IF has_latch
                   THEN /\ chan' = Append(chan, open(now))
                        /\ sent' = record(sent, [t |-> now, d |-> open(now)])
                        /\ tx' = [tx EXCEPT ![r] =
                                    Append(@, Op("latch_open", open(now), TRUE))]
                   ELSE UNCHANGED <<chan, sent, tx>>
              /\ pc' = [pc EXCEPT ![r] = "guard"]
              /\ UNCHANGED <<lock, req_slot, result, early, entry_sched>>
    /\ UNCHANGED <<cfg_vars, aborted, read_vars, now, sched, vend, wpc, instant, wnow, wake,
                   pin, latch_log>>

\* line 143: `let _rt = RealtimeGuard::default();`
\* set_priority(true) fails -> expect() panics; the unwinding drops the guard
\* built inside default() (set_priority(false)) and the guard of the mutex.
\* When that set_priority(false) fails too, the expect() of Drop panics during
\* the unwinding and the process aborts: nothing more is dropped or released.
drop_guard(r) ==
    /\ running
    /\ pc[r] = "guard"
    /\ IF sched_setscheduler_ok(sched[worker_of(r)], TRUE)
         THEN /\ sched' = [sched EXCEPT ![worker_of(r)] = set_priority(TRUE)]
              /\ tx' = [tx EXCEPT ![r] = Append(@, Op("rt_acquire", 0, TRUE))]
              /\ pc' = [pc EXCEPT ![r] = "energize"]
              /\ UNCHANGED <<lock, req_slot, result, early, entry_sched, aborted>>
         ELSE IF sched_setscheduler_ok(sched[worker_of(r)], FALSE)
         THEN /\ sched' = [sched EXCEPT ![worker_of(r)] = set_priority(FALSE)]
              /\ pc' = [pc EXCEPT ![r] = "panicked"]
              /\ lock' = mutex_after_guard_drop(r)
              /\ TaskEnds(r)
              /\ aborted' = aborted
         ELSE /\ aborted' = TRUE
              /\ pc' = [pc EXCEPT ![r] = "panicked"]
              /\ TaskEnds(r)
              /\ UNCHANGED <<sched, lock>>
    /\ UNCHANGED <<cfg_vars, read_vars, now, vend, latch_vars>>

\* pc after a successful energize (lines 147, 169)
after_energize(slot) ==
    IF slot.kind = "GPIO" /\ slot.cam THEN "subscribe" ELSE "hold"

\* pc after a failed energize: the `else if`/`else` of lines 147-172 hang off
\* `if let Err(err) = run_motor(..)`, the de-energize of line 175 does not
skip_deenergize_on_failure == "release"
after_failed_energize == "deenergize"

\* lines 144-146: `run_motor(slot_config, true)`
drop_energize(r, ok) ==
    /\ running
    /\ pc[r] = "energize"
    /\ vend' = [vend EXCEPT ![req_slot[r]] = line_after(@, TRUE, ok)]
    /\ tx' = [tx EXCEPT ![r] = Append(@, Op("energize", req_slot[r], ok))]
    /\ IF run_motor(ok) # "Success"
         THEN /\ result' = [result EXCEPT ![r] = run_motor(ok)]
              /\ pc' = [pc EXCEPT ![r] = after_failed_energize]
         ELSE /\ result' = result
              /\ pc' = [pc EXCEPT ![r] = after_energize(slot_config(req_slot[r]))]
    /\ UNCHANGED <<cfg_vars, aborted, read_vars, now, lock, req_slot,  early, entry_sched, sched,
                   latch_vars>>

\* a panic inside drop once `_rt` is alive: the unwinding drops the guard
\* (RealtimeGuard::drop, set_priority(false)) and then the MutexGuard of the
\* handler; drop returns nothing and the vend line stays as it is. A
\* set_priority(false) that fails there is a panic during the unwinding: the
\* process aborts.
unwind_drop(r) ==
    IF sched_setscheduler_ok(sched[worker_of(r)], FALSE)
      THEN /\ sched' = [sched EXCEPT ![worker_of(r)] = set_priority(FALSE)]
           /\ pc' = [pc EXCEPT ![r] = "panicked"]
           /\ lock' = mutex_after_guard_drop(r)
           /\ TaskEnds(r)
           /\ aborted' = aborted
      ELSE /\ aborted' = TRUE
           /\ pc' = [pc EXCEPT ![r] = "panicked"]
           /\ TaskEnds(r)
           /\ UNCHANGED <<sched, lock>>

\* lines 148-157: `if let Err(err) = wait_until_line_hits_value(..) { eprintln!(..) }`
\* leaves `result` as it is; w is what the wait returned
rise_timeout_fatal(cur, w) == IF w # "Ok" THEN w ELSE cur
rise_timeout_logged(cur, w) == cur

\* lines 148-153 with 121-123: the call of the rising-edge wait requests the
\* events of the cam line in the poll that made the energize write; the task
\* yields only at the timeout of lines 124-126
drop_subscribe(r, subscribed) ==
    /\ running
    /\ pc[r] = "subscribe"
    /\ IF async_events(subscribed) = "panic"
         THEN unwind_drop(r)
         ELSE /\ pc' = [pc EXCEPT ![r] = "rise"]
              /\ UNCHANGED <<lock, req_slot, result, early, entry_sched, tx, sched,
                             aborted>>
    /\ UNCHANGED <<cfg_vars, read_vars, now, vend, latch_vars>>

\* lines 154-163: the rising-edge wait ends, after at most 500 ms; a timeout
\* is only logged. The poll that ends it goes on to the call of the
\* falling-edge wait, which requests the events of the cam line again
\* (121-123), and yields at the timeout of that wait.
drop_rise(r, next, subscribed) ==
    /\ running
    /\ pc[r] = "rise"
    /\ IF async_events(subscribed) = "panic"
         THEN unwind_drop(r)
         ELSE /\ tx' = [tx EXCEPT ![r] =
                          Append(@, Op("wait_rise", RiseTimeoutMs, next # "elapsed"))]
              /\ result' = [result EXCEPT ![r] =
                              rise_timeout_logged(@,
                                wait_until_line_hits_value(TRUE, next))]
              /\ pc' = [pc EXCEPT ![r] = "fall"]
              /\ UNCHANGED <<lock, req_slot, early, entry_sched, sched, aborted>>
    /\ UNCHANGED <<cfg_vars, read_vars, now, vend, latch_vars>>

\* lines 164-168: the falling-edge wait ends, after at most 10 s; a timeout
\* is the result
drop_fall(r, next) ==
    /\ running
    /\ pc[r] = "fall"
    /\ tx' = [tx EXCEPT ![r] =
                Append(@, Op("wait_fall", Waited(FallTimeoutSecs, next),
                             next # "elapsed"))]
    /\ result' = IF wait_until_line_hits_value(TRUE, next) # "Ok"
                   THEN [result EXCEPT ![r] = wait_until_line_hits_value(TRUE, next)]
                   ELSE result
    /\ pc' = [pc EXCEPT ![r] = "deenergize"]
    /\ UNCHANGED <<cfg_vars, aborted, read_vars, now, lock, req_slot, early, entry_sched,
                   sched, vend, latch_vars>>


\* lines 170-171: `thread::sleep(Duration::from_millis(config.drop_delay))`
drop_hold(r) ==
    /\ running
    /\ pc[r] = "hold"
    /\ tx' = [tx EXCEPT ![r] = Append(@, Op("hold", drop_delay, TRUE))]
    /\ pc' = [pc EXCEPT ![r] = "deenergize"]
    /\ UNCHANGED <<cfg_vars, aborted, read_vars, now, lock, req_slot,  result, early, entry_sched,
                   sched, vend, latch_vars>>

\* pc after the first de-energize (line 183: `match slot_config`)
after_deenergize_gpio_only(slot) == "release"
after_deenergize_always_twice(slot) == "hold2"
after_deenergize(slot) ==
    IF slot.kind = "OWFS" THEN "hold2" ELSE "release"

\* lines 175-181: `if let Err(err) = run_motor(..) { result = Err(err); }`
first_failure_keeps_timeout(cur, ok) ==
    IF cur = "Success" THEN run_motor(ok) ELSE cur
first_failure(cur, ok) ==
    IF run_motor(ok) # "Success" THEN run_motor(ok) ELSE cur

\* lines 174-181: `run_motor(slot_config, false)`
drop_deenergize(r, ok) ==
    /\ running
    /\ pc[r] = "deenergize"
    /\ vend' = [vend EXCEPT ![req_slot[r]] = line_after(@, FALSE, ok)]
    /\ tx' = [tx EXCEPT ![r] = Append(@, Op("deenergize", req_slot[r], ok))]
    /\ result' = [result EXCEPT ![r] = first_failure(@, ok)]
    /\ pc' = [pc EXCEPT ![r] = after_deenergize(slot_config(req_slot[r]))]
    /\ UNCHANGED <<cfg_vars, aborted, read_vars, now, lock, req_slot,  early, entry_sched, sched,
                   latch_vars>>

\* lines 185-186: the second delay of a one-wire drop
drop_hold2(r) ==
    /\ running
    /\ pc[r] = "hold2"
    /\ tx' = [tx EXCEPT ![r] = Append(@, Op("hold", drop_delay, TRUE))]
    /\ pc' = [pc EXCEPT ![r] = "deenergize2"]
    /\ UNCHANGED <<cfg_vars, aborted, read_vars, now, lock, req_slot,  result, early, entry_sched,
                   sched, vend, latch_vars>>

\* what a failed second de-energize does to the outcome (line 194: `return Err(err)`)
second_failure_ignored(cur, ok) == [result |-> cur, early |-> FALSE]
second_failure(cur, ok) ==
    IF run_motor(ok) # "Success"
      THEN [result |-> run_motor(ok), early |-> TRUE]
      ELSE [result |-> cur, early |-> FALSE]

\* lines 188-195: `run_motor(slot_config, false)` again
drop_deenergize2(r, ok) ==
    /\ running
    /\ pc[r] = "deenergize2"
    /\ vend' = [vend EXCEPT ![req_slot[r]] = line_after(@, FALSE, ok)]
    /\ tx' = [tx EXCEPT ![r] = Append(@, Op("deenergize", req_slot[r], ok))]
    /\ result' = [result EXCEPT ![r] = second_failure(@, ok).result]
    /\ early' = [early EXCEPT ![r] = second_failure(result[r], ok).early]
    /\ pc' = [pc EXCEPT ![r] = "release"]
    /\ UNCHANGED <<cfg_vars, aborted, read_vars, now, lock, req_slot,  entry_sched, sched,
                   latch_vars>>

\* `_rt` goes out of scope (lines 194, 204): RealtimeGuard::drop
drop_release(r) ==
    /\ running
    /\ pc[r] = "release"
    /\ IF sched_setscheduler_ok(sched[worker_of(r)], FALSE)
         THEN /\ sched' = [sched EXCEPT ![worker_of(r)] = set_priority(FALSE)]
              /\ tx' = [tx EXCEPT ![r] = Append(@, Op("rt_release", 0, TRUE))]
              /\ pc' = [pc EXCEPT ![r] = "returned"]
              /\ UNCHANGED <<lock, req_slot, result, early, entry_sched>>
         \* the expect() of Drop panics: the handler unwinds, no response
         ELSE /\ sched' = sched
              /\ pc' = [pc EXCEPT ![r] = "panicked"]
              /\ lock' = mutex_after_guard_drop(r)
              /\ TaskEnds(r)
    /\ UNCHANGED <<cfg_vars, aborted, read_vars, now, vend, latch_vars>>

\* ------------------------------------- config.rs: Latch::new worker thread
LatchEv(ev, d) == [ev |-> ev, t |-> now, d |-> d]

never_stale(n, inst) == FALSE

\* `if now > instant { continue; }` (lines 51 and 58)
is_stale(n, inst) == n > inst

\* Instant::duration_since: saturates to zero
duration_since(later, earlier) == IF later >= earlier THEN later - earlier ELSE 0

sleep_not_extended(n, inst) == n

\* `thread::sleep(instant.duration_since(now))`: the instant the sleep lasts to
sleep_until(n, inst) == n + duration_since(inst, n)

\* the worker's position once try_recv() finds the channel empty (line 64)
drained_pc == "off"

\* line 49: `let instant = receiver.recv().unwrap();`
latch_recv ==
    /\ running
    /\ wpc = "recv"
    /\ chan # <<>>
    /\ instant' = Head(chan)
    /\ chan' = Tail(chan)
    /\ wpc' = "check"
    /\ UNCHANGED <<cfg_vars, aborted, read_vars, now, lock, req_vars, sched, vend, wnow, wake, pin,
                   sent, latch_log>>

\* lines 50-53: `let now = Instant::now();` and the test of that value: a
\* stale deadline is discarded
latch_check ==
    /\ running
    /\ wpc = "check"
    /\ IF is_stale(now, instant)
         THEN /\ wpc' = "recv"
              /\ latch_log' = record(latch_log, LatchEv("discard", instant))
              /\ wnow' = wnow
         ELSE /\ wnow' = now
              /\ wpc' = "on"
              /\ latch_log' = latch_log
    /\ UNCHANGED <<cfg_vars, aborted, read_vars, now, lock, req_vars, sched, vend, chan, instant,
                   wake, pin, sent>>

\* the worker thread panics on the unwrap() of a failed write: the thread is
\* gone for good with its locals, the line keeps its value, and the Receiver
\* is dropped with the deadlines still in the channel
latch_panic ==
    /\ wpc' = "dead"
    /\ chan' = <<>>
    /\ instant' = 0
    /\ wake' = 0
    /\ UNCHANGED <<pin, latch_log>>

\* lines 54-55: `pin.set_value(1)` and `thread::sleep(instant.duration_since(now))`
\* with the `now` of line 50: the sleep lasts that long from the present
\* instant, whatever time has passed since the clock was read. (A sleep that
\* starts later than the write ends later, which latch_wake allows.)
\* `pin.set_value(1).unwrap()`: a write that fails panics the worker thread.
latch_on(ok) ==
    /\ running
    /\ wpc = "on"
    /\ IF ok
         THEN /\ pin' = 1
              /\ wake' = now + duration_since(instant, wnow)
              /\ wpc' = "sleep"
              /\ latch_log' = record(latch_log, LatchEv("on", instant))
              /\ chan' = chan
              /\ instant' = instant
         ELSE latch_panic
    /\ wnow' = 0
    /\ UNCHANGED <<cfg_vars, aborted, read_vars, now, lock, req_vars, sched, vend, sent>>

\* thread::sleep returns (lines 55, 62): never before the time asked for
latch_wake ==
    /\ running
    /\ wpc = "sleep"
    /\ now >= wake
    /\ wpc' = "try_recv"
    /\ UNCHANGED <<cfg_vars, aborted, read_vars, now, lock, req_vars, sched, vend, chan, instant,
                   wnow, wake, pin, sent, latch_log>>

\* line 56: `while let Ok(instant) = receiver.try_recv()`
latch_try_recv ==
    /\ running
    /\ wpc = "try_recv"
    /\ IF chan # <<>>
         THEN /\ instant' = Head(chan)
              /\ chan' = Tail(chan)
              /\ wpc' = "drain_check"
         ELSE /\ wpc' = drained_pc
              /\ UNCHANGED <<instant, chan>>
    /\ UNCHANGED <<cfg_vars, aborted, read_vars, now, lock, req_vars, sched, vend, wnow, wake, pin,
                   sent, latch_log>>

\* lines 57-62: read the clock, skip a stale deadline, else sleep on to it
\* (the sleep asked for here ends at the deadline at the earliest, however
\* late it starts: latch_wake allows every later end)
latch_drain_check ==
    /\ running
    /\ wpc = "drain_check"
    /\ IF is_stale(now, instant)
         THEN /\ wpc' = "try_recv"
              /\ latch_log' = record(latch_log, LatchEv("skip", instant))
              /\ wake' = wake
         ELSE /\ wake' = sleep_until(now, instant)
              /\ wpc' = "sleep"
              /\ latch_log' = latch_log
    /\ UNCHANGED <<cfg_vars, aborted, read_vars, now, lock, req_vars, sched, vend, chan, instant,
                   wnow, pin, sent>>

\* line 64: `pin.set_value(0).unwrap();` and back to the top of the loop; a
\* write that fails panics the worker thread with the line still on
latch_off(ok) ==
    /\ running
    /\ wpc = "off"
    /\ IF ok
         THEN /\ pin' = 0
              /\ wpc' = "recv"
              /\ latch_log' = record(latch_log, LatchEv("off", instant))
              /\ UNCHANGED <<chan, wake, instant>>
         ELSE latch_panic
    /\ UNCHANGED <<cfg_vars, aborted, read_vars, now, lock, req_vars, sched, vend, wnow, sent>>

\* ------------------------------------------------------------- the clock
\* The clock advances. It stops at Horizon, and it leaves every request that
\* may still call Latch::open the time to have its deadline reached, and the
\* worker that is about to sleep the time to sleep.
Tick ==
    /\ now + Quantum <= Horizon
    /\ \A r \in Reqs : pc[r] \in BeforeOpen => now + Quantum + LatchOpenSecs <= Horizon
    /\ wpc = "on" => now + Quantum + duration_since(instant, wnow) <= Horizon
    /\ now' = now + Quantum
    /\ UNCHANGED <<cfg_vars, aborted, read_vars, lock, req_vars, sched, vend, latch_vars>>

\* ------------------------------------------------------------------ Next
Requests == \E r \in Reqs : Arrive(r)

Handler ==
    \/ \E r \in Reqs, s \in 0 .. NumSlots + 1 : Lock(r, s)
    \/ \E r \in Reqs : Unlock(r)

Drop ==
    \/ \E r \in Reqs : drop_validate(r)
    \/ \E r \in Reqs : drop_latch(r)
    \/ \E r \in Reqs : drop_guard(r)
    \/ \E r \in Reqs, ok \in BOOLEAN : drop_energize(r, ok)
    \/ \E r \in Reqs, subscribed \in BOOLEAN : drop_subscribe(r, subscribed)
    \/ \E r \in Reqs, next \in StreamItems, subscribed \in BOOLEAN :
          drop_rise(r, next, subscribed)
    \/ \E r \in Reqs, next \in StreamItems : drop_fall(r, next)
    \/ \E r \in Reqs : drop_hold(r)
    \/ \E r \in Reqs, ok \in BOOLEAN : drop_deenergize(r, ok)
    \/ \E r \in Reqs : drop_hold2(r)
    \/ \E r \in Reqs, ok \in BOOLEAN : drop_deenergize2(r, ok)
    \/ \E r \in Reqs : drop_release(r)

LatchWorker ==
    \/ latch_recv
    \/ latch_check
    \/ \E ok \in BOOLEAN : latch_on(ok)
    \/ latch_wake
    \/ latch_try_recv
    \/ latch_drain_check
    \/ \E ok \in BOOLEAN : latch_off(ok)

Next == Requests \/ Handler \/ Drop \/ LatchWorker \/ Tick

\* the /drop endpoint and the latch worker, no /health or /slots request
Spec == Init /\ [][Next]_vars

\* The handlers and the latch worker share the channel and nothing else: the
\* worker reads no variable of a request, of a thread of the server or of a
\* slot, and a handler reads no variable of the worker. Each side is checked
\* with the whole range of what it depends on.

\* the /drop endpoint on every machine of Init; the latch worker, if there is
\* one, is not scheduled and the deadlines sent to it stay in the channel
DropNext == Requests \/ Handler \/ Drop \/ Tick
DropSpec == Init /\ [][DropNext]_vars

Reads ==
    \/ \E kind \in {"health", "slots"} : routes_lock(kind)
    \/ \E rd \in Stocked : routes_health(rd)
    \/ \E rd \in Stocked : routes_get_slots(rd)
    \/ routes_respond

\* the three endpoints of the server: /drop, /health and /slots, on the
\* machines started in the default class (the handlers of /health and /slots
\* neither read nor set a scheduling class)
ServerNext == DropNext \/ Reads
ServerInit ==
    /\ Init
    /\ sched = [t \in Threads |-> SchedDefault]
ServerSpec == ServerInit /\ [][ServerNext]_vars

\* Where the latch worker runs beside the requests, the requests ask for slot
\* 0 (a BadSlot) or for one of the first NumSlots - 1 configured slots. Which
\* slot a drop actuates bears on no step of the worker, and on no wait of a
\* request: no step reads a vend line.
WorkerHandler ==
    \/ \E r \in Reqs, s \in 0 .. NumSlots - 1 : Lock(r, s)
    \/ \E r \in Reqs : Unlock(r)
WorkerNext == Requests \/ WorkerHandler \/ Drop \/ LatchWorker \/ Tick

\* the /drop endpoint together with the latch worker, on the machines that
\* serve on one thread started in the default class with every PIO file at 0
LatchInit ==
    /\ Init
    /\ workers = 1
    /\ sched = [t \in Threads |-> SchedDefault]
    /\ vend = [i \in 1 .. NumSlots |-> 0]
LatchSpec == LatchInit /\ [][WorkerNext]_vars

\* machines whose slots are all one-wire or all GPIO with a cam, serving on
\* one thread with every PIO file at 0, without the histories
LiveMachines ==
    /\ Start(FALSE)
    /\ workers = 1
    /\ vend = [i \in 1 .. NumSlots |-> 0]
    /\ slots \in {[i \in 1 .. NumSlots |-> OWFS], [i \in 1 .. NumSlots |-> GPIO(TRUE)]}

\* Liveness of the requests: the machines of LiveMachines, with and without a
\* latch, started in the default class or, without the privilege, in the
\* class the guard asks for (which the process may keep but not regain) or in
\* SCHED_IDLE (which the guard cannot leave). The program keeps running while
\* it has a step to take and the clock advances; nothing obliges a request to
\* arrive.
LiveInit ==
    /\ LiveMachines
    /\ \/ sched = [t \in Threads |-> SchedDefault]
       \/ /\ ~rt_allowed
          /\ \/ sched = [t \in Threads |-> [policy |-> "SCHED_FIFO", priority |-> RtPriority]]
             \/ sched = [t \in Threads |-> [policy |-> "SCHED_IDLE", priority |-> 0]]
LiveSpec ==
    /\ LiveInit /\ [][WorkerNext]_vars
    /\ WF_vars(WorkerHandler \/ Drop \/ LatchWorker \/ Tick)

\* Liveness of the latch worker: the machines of LiveInit that have a latch,
\* under the same fairness.
LatchLiveInit ==
    /\ LiveInit
    /\ has_latch
LatchLiveSpec ==
    /\ LatchLiveInit /\ [][WorkerNext]_vars
    /\ WF_vars(WorkerHandler \/ Drop \/ LatchWorker \/ Tick)

\* ---------------------------------------------------------------- claims
\* the transaction of request r runs on a validated slot
Validated(r) == req_slot[r] \in DOMAIN slots
SlotOf(r) == slot_config(req_slot[r])
\* machine::drop has returned to the handler
Returned(r) == pc[r] = "returned"

IsVendWrite(o) == o.op \in {"energize", "deenergize"}
\* the writes to the vend actuator the transaction issued, in order
VendWrites(r) == SelectSeq(tx[r], IsVendWrite)
IsMotorStep(o) == o.op \in {"energize", "deenergize", "hold", "wait_rise", "wait_fall"}
\* the steps between acquiring and releasing the guard, in order
MotorSteps(r) == SelectSeq(tx[r], IsMotorStep)
OpNames(seq) == [i \in DOMAIN seq |-> seq[i].op]
IsPrefix(a, b) == Len(a) <= Len(b) /\ a = SubSeq(b, 1, Len(a))
Has(r, op, ok) == \E i \in DOMAIN tx[r] : tx[r][i].op = op /\ tx[r][i].ok = ok

\* C1: a drop of slot 0 or of a slot beyond the slot count returns BadSlot in
\* the validation step itself, and that step writes no vend line, sends no
\* latch request and leaves every thread's scheduling class alone.
C1_BadSlotNoSideEffect ==
    [][\A r \in Reqs :
         (pc[r] = "drop" /\ pc'[r] # "drop"
            /\ (req_slot[r] = 0 \/ req_slot[r] > NumSlots))
         => /\ pc'[r] = "returned"
            /\ result'[r] = "BadSlot"
            /\ tx'[r] = <<>>
            /\ vend' = vend
            /\ chan' = chan /\ sent' = sent
            /\ sched' = sched]_vars

C1_Witness ==
    \E r \in Reqs : Returned(r) /\ req_slot[r] = 0 /\ result[r] = "BadSlot"

\* C2: on a GPIO slot without cam the vend writes of a transaction are one
\* energize then one de-energize (the de-energize whatever the energize gave),
\* and the drop returns Success exactly when both writes succeeded.
C2_GpioNoCam ==
    \A r \in Reqs :
      (Validated(r) /\ SlotOf(r).kind = "GPIO" /\ ~SlotOf(r).cam) =>
        /\ IsPrefix(OpNames(VendWrites(r)), <<"energize", "deenergize">>)
        /\ Returned(r) =>
             /\ OpNames(VendWrites(r)) = <<"energize", "deenergize">>
             /\ (result[r] = "Success") <=> (VendWrites(r)[1].ok /\ VendWrites(r)[2].ok)

C2_Witness ==
    \E r \in Reqs :
      /\ Returned(r) /\ Validated(r)
      /\ SlotOf(r).kind = "GPIO" /\ ~SlotOf(r).cam
      /\ Len(VendWrites(r)) = 2
      /\ ~VendWrites(r)[1].ok /\ VendWrites(r)[2].ok
      /\ result[r] = "MotorFailed"

\* the edge wait named op of the transaction of r ended with next
Gave(r, op, next) ==
    \E i \in DOMAIN tx[r] : tx[r][i].op = op /\ tx[r][i].arg.next = next

\* C3 as stated: on a GPIO slot with cam, energize succeeded and no falling
\* edge arrived within the 10 s wait => the drop returns MotorTimeout.
C3_Original ==
    \A r \in Reqs :
      (Returned(r) /\ Validated(r) /\ SlotOf(r).kind = "GPIO" /\ SlotOf(r).cam
         /\ Has(r, "energize", TRUE) /\ ~Gave(r, "wait_fall", "event"))
      => result[r] = "MotorTimeout"

\* C3 amended: on a GPIO slot with cam, when energize succeeded and the 10 s
\* of the falling-edge wait elapsed with nothing read from the events of the
\* cam line, the wait records MotorTimeout; the drop returns MotorTimeout when
\* the de-energize write then succeeds and MotorFailed when it fails. When
\* the wait ended within the 10 s on an error or the end of the events, with
\* no falling edge, the wait leaves the outcome at Success, and the drop
\* returns Success when the de-energize write succeeds and MotorFailed when
\* it fails.
C3_Timeout ==
    \A r \in Reqs :
      (Validated(r) /\ SlotOf(r).kind = "GPIO" /\ SlotOf(r).cam
         /\ Has(r, "energize", TRUE))
      => /\ Has(r, "wait_fall", FALSE) =>
              /\ Gave(r, "wait_fall", "elapsed")
              /\ pc[r] = "deenergize" => result[r] = "MotorTimeout"
              /\ Returned(r) =>
                   result[r] = IF Has(r, "deenergize", TRUE) THEN "MotorTimeout"
                               ELSE "MotorFailed"
         /\ Gave(r, "wait_fall", "closed") =>
              /\ pc[r] = "deenergize" => result[r] = "Success"
              /\ Returned(r) =>
                   result[r] = IF Has(r, "deenergize", TRUE) THEN "Success"
                               ELSE "MotorFailed"

C3_Witness ==
    \E r \in Reqs :
      /\ Returned(r) /\ Validated(r) /\ SlotOf(r).cam
      /\ Has(r, "energize", TRUE) /\ Has(r, "wait_fall", FALSE)
      /\ Has(r, "deenergize", TRUE)
      /\ result[r] = "MotorTimeout"

\* a drop has returned Success though its falling-edge wait saw no edge: the
\* events of the cam line failed or ended within the 10 s
C3_WitnessClosed ==
    \E r \in Reqs :
      /\ Returned(r) /\ Validated(r) /\ SlotOf(r).cam
      /\ Has(r, "wait_rise", TRUE) /\ Gave(r, "wait_fall", "closed")
      /\ result[r] = "Success" /\ vend[req_slot[r]] = 0

\* C4: on a one-wire slot, first de-energize succeeded and second failed =>
\* the drop returns MotorFailed, through the early return of that step.
C4_SecondFailure ==
    \A r \in Reqs :
      (Validated(r) /\ SlotOf(r).kind = "OWFS" /\ pc[r] \in {"release", "returned"}
         /\ Len(VendWrites(r)) = 3
         /\ VendWrites(r)[2].ok /\ ~VendWrites(r)[3].ok)
      => result[r] = "MotorFailed" /\ early[r]

C4_Witness ==
    \E r \in Reqs :
      /\ Returned(r) /\ Validated(r) /\ SlotOf(r).kind = "OWFS"
      /\ Len(VendWrites(r)) = 3
      /\ VendWrites(r)[1].ok /\ VendWrites(r)[2].ok /\ ~VendWrites(r)[3].ok
      /\ result[r] = "MotorFailed" /\ early[r]

\* the two-cycle sequence of a one-wire drop
TwoCycles(r) ==
    /\ OpNames(MotorSteps(r)) = <<"energize", "hold", "deenergize", "hold", "deenergize">>
    /\ MotorSteps(r)[2].arg = drop_delay
    /\ MotorSteps(r)[4].arg = drop_delay

\* the sequence of a one-wire drop whose energize write failed
OneCycle(r) ==
    /\ OpNames(MotorSteps(r)) = <<"energize", "deenergize", "hold", "deenergize">>
    /\ MotorSteps(r)[3].arg = drop_delay

\* C5 as stated: every one-wire drop, whatever the energize write gave, is
\* energize, hold, de-energize, hold, de-energize.
C5_Original ==
    \A r \in Reqs :
      (Returned(r) /\ Validated(r) /\ SlotOf(r).kind = "OWFS") => TwoCycles(r)

\* C5 amended: every one-wire drop makes two de-energize attempts with a hold of
\* the configured delay between them; the hold after the energize attempt is
\* made when the energize write succeeded (two delay cycles) and skipped when it
\* failed (one delay cycle).
C5_OneWireCycles ==
    \A r \in Reqs :
      (Returned(r) /\ Validated(r) /\ SlotOf(r).kind = "OWFS") =>
        IF MotorSteps(r)[1].ok THEN TwoCycles(r) ELSE OneCycle(r)

C5_Witness ==
    \E r \in Reqs :
      /\ Returned(r) /\ Validated(r) /\ SlotOf(r).kind = "OWFS"
      /\ MotorSteps(r)[1].ok /\ TwoCycles(r)
      /\ result[r] = "Success"


\* ------------------------------------------------------ claims on the latch
IsOn(e) == e.ev = "on"
IsOff(e) == e.ev = "off"
IsDiscard(e) == e.ev \in {"discard", "skip"}
\* the energize and de-energize writes of the worker, in order
Ons == SelectSeq(latch_log, IsOn)
Offs == SelectSeq(latch_log, IsOff)
Discards == SelectSeq(latch_log, IsDiscard)

\* exactly two open requests so far, with deadlines T1 < T2, the second sent
\* before T1
PairCase ==
    /\ Len(sent) = 2
    /\ sent[1].d < sent[2].d
    /\ sent[2].t < sent[1].d
\* the worker has consumed every request and blocks in recv()
Quiescent == wpc = "recv" /\ chan = <<>>

\* C6 as stated: the pair gives exactly one energize and one de-energize write,
\* the de-energize at or after T2.
C6_Original ==
    PairCase =>
      /\ \A i \in DOMAIN Offs : Offs[i].t >= sent[2].d
      /\ Quiescent => Len(Ons) = 1 /\ Len(Offs) = 1

\* C6 amended: the pair gives at most one energize write and as many
\* de-energize writes: exactly one of each, unless both deadlines were already
\* past when the worker received them, and then none; a de-energize write
\* happens at or after T2.
C6_Coalescing ==
    PairCase =>
      /\ \A i \in DOMAIN Offs : Offs[i].t >= sent[2].d
      /\ Len(Ons) <= 1 /\ Len(Offs) <= Len(Ons)
      /\ Quiescent =>
           /\ Len(Offs) = Len(Ons)
           /\ Len(Ons) = IF Len(Discards) = 2 THEN 0 ELSE 1

C6_Witness ==
    /\ PairCase /\ Quiescent
    /\ Len(Ons) = 1 /\ Len(Offs) = 1
    /\ Ons[1].t < sent[2].t
    /\ Offs[1].t >= sent[2].d

\* C7: a step of the worker that reads the clock and finds the deadline it
\* holds already past, idle or draining, leaves the latch line alone and
\* records no energize write; the line only goes on by the write that follows
\* an idle clock read which was not past the deadline (the write itself may
\* land later than the deadline when the worker is delayed after the read).
C7_StaleNeverEnergizes ==
    [][/\ (wpc \in {"check", "drain_check"} /\ now > instant /\ wpc' # wpc)
            => (pin' = pin /\ Ons' = Ons /\ wpc' # "on")
       /\ (pin' = 1 /\ pin = 0) => (wpc = "on" /\ wnow <= instant)
       /\ Len(Ons') > Len(Ons) => (wpc = "on" /\ wnow <= instant)]_vars

C7_Witness ==
    /\ \E i \in DOMAIN latch_log : latch_log[i].ev = "discard" /\ latch_log[i].t > latch_log[i].d
    /\ pin = 0
    /\ Ons = <<>>

C7_WitnessDrain ==
    \E i \in DOMAIN latch_log : latch_log[i].ev = "skip" /\ latch_log[i].t > latch_log[i].d

\* the energize write of a deadline that was ahead at the clock read, landing
\* after the deadline
C7_WitnessLateWrite ==
    \E i \in DOMAIN Ons : Ons[i].t > Ons[i].d

\* C8 as stated: when the worker writes 0 to the latch line, every deadline
\* sent so far (received or still in the channel) has passed.
C8_OffOnlyAfterAllDeadlines ==
    [][(pin = 1 /\ pin' = 0) => \A i \in DOMAIN sent : sent[i].d <= now]_vars

\* C9 as stated: with the finitely many open requests of a behaviour, a latch
\* line that is energized is eventually de-energized with the worker back in
\* recv(): the line is not left energized forever.
C9_EventuallyOff == (pin = 1) ~> (pin = 0 /\ wpc = "recv")

\* C10 as stated: when a drop on a validated slot has returned, on whichever
\* path, the guard was acquired and the scheduling class of its thread is the
\* one found on entry, and is not the elevated one.
C10_GuardRestored ==
    \A r \in Reqs :
      (Returned(r) /\ Validated(r)) =>
        /\ Has(r, "rt_acquire", TRUE)
        /\ sched[worker_of(r)] = entry_sched[r]
        /\ sched[worker_of(r)].policy # "SCHED_FIFO"

\* pcs of a request whose handler is inside the block that holds `config`
InDrop == {"drop", "latch", "guard", "energize", "subscribe", "rise", "fall", "hold",
           "deenergize", "hold2", "deenergize2", "release", "returned"}
\* the transaction has energized the vend actuator and not yet written it off
Actuating(r) ==
    pc[r] \in {"subscribe", "rise", "fall", "hold", "deenergize"}
      /\ Has(r, "energize", TRUE)

\* C11 as stated: a drop request holds the configuration lock only while it
\* reads the configuration, so it does not hold it in its actuation section.
C11_Original ==
    \A r \in Reqs : Actuating(r) => lock # r

\* C11 amended: a drop request holds the configuration lock from before the
\* validation until drop has returned, so no two drop requests are in their
\* actuation sections at once and no /health or /slots handler holds the lock,
\* or builds its listing, while a drop is in progress.
C11_LockAcrossDrop ==
    /\ \A r \in Reqs : pc[r] \in InDrop => lock = r
    /\ \A r, q \in Reqs : (Actuating(r) /\ Actuating(q)) => r = q
    /\ rpc # "idle" => (lock = reader /\ \A r \in Reqs : pc[r] \notin InDrop)

C11_Witness ==
    \E r, q \in Reqs :
      /\ Actuating(r) /\ lock = r
      /\ pc[q] = "lock"
      /\ rpc = "idle"

\* C12 as stated: the index that the /slots listing reports for the k-th
\* configured slot is k, and drop accepts that index and actuates that slot.
C12_ListedIndexDrops ==
    rpc = "slots_listed" =>
      \A k \in DOMAIN report :
        /\ report[k].number = k
        /\ ~slot_is_bad(report[k].number)
        /\ slot_config(report[k].number) = slots[k]

\* C13: on a validated slot, the step of a first de-energize write that fails
\* leaves MotorFailed as the outcome whatever it was before (Success,
\* MotorTimeout or MotorFailed), and a drop on a GPIO slot with cam whose
\* falling-edge wait timed out and whose de-energize failed returns MotorFailed.
C13_DeenergizePrecedence ==
    /\ [][\A r \in Reqs :
            (pc[r] = "deenergize" /\ pc'[r] # "deenergize"
               /\ ~tx'[r][Len(tx'[r])].ok)
            => /\ result[r] \in {"Success", "MotorTimeout", "MotorFailed"}
               /\ result'[r] = "MotorFailed"]_vars
    /\ [](\A r \in Reqs :
            (Returned(r) /\ Validated(r) /\ SlotOf(r).kind = "GPIO" /\ SlotOf(r).cam
               /\ Has(r, "wait_fall", FALSE) /\ Has(r, "deenergize", FALSE))
            => result[r] = "MotorFailed")

C13_Witness ==
    \E r \in Reqs :
      /\ Returned(r) /\ Validated(r) /\ SlotOf(r).kind = "GPIO" /\ SlotOf(r).cam
      /\ Has(r, "energize", TRUE)
      /\ Has(r, "wait_fall", FALSE) /\ Has(r, "deenergize", FALSE)
      /\ result[r] = "MotorFailed"

IsDeenergize(o) == o.op = "deenergize"
\* the de-energize writes the transaction issued
Deenergizes(r) == SelectSeq(tx[r], IsDeenergize)
\* de-energize writes of a complete transaction on a slot
writes_off(slot) == IF slot.kind = "OWFS" THEN 2 ELSE 1

\* C14: on any validated slot, once the energize write has failed the outcome
\* is MotorFailed and stays so; the drop still issues the de-energize write(s)
\* of the slot before it returns, and returns MotorFailed whatever they give.
\* No step of a transaction takes a recorded MotorFailed or MotorTimeout back
\* to Success.
C14_EnergizeFailure ==
    /\ [](\A r \in Reqs :
            (Validated(r) /\ Has(r, "energize", FALSE)) =>
              /\ result[r] = "MotorFailed"
              /\ Returned(r) =>
                   /\ Len(Deenergizes(r)) = writes_off(SlotOf(r))
                   /\ OpNames(MotorSteps(r))[2] = "deenergize")
    /\ [][\A r \in Reqs :
            (result[r] \in {"MotorFailed", "MotorTimeout"} /\ pc'[r] \in InDrop)
            => result'[r] \in {"MotorFailed", "MotorTimeout"}]_vars

C14_Witness ==
    \E r \in Reqs :
      /\ Returned(r) /\ Validated(r) /\ SlotOf(r).kind = "OWFS"
      /\ Has(r, "energize", FALSE)
      /\ Len(Deenergizes(r)) = 2
      /\ \A i \in 1 .. 2 : Deenergizes(r)[i].ok
      /\ result[r] = "MotorFailed"

\* C15: on a GPIO slot with cam whose energize write succeeded, the steps under
\* the guard are energize, rising-edge wait, falling-edge wait, de-energize in
\* that order whether or not the rising-edge wait timed out; the rising-edge
\* wait leaves the outcome alone, and when it timed out, the falling edge came
\* in time and the de-energize write succeeded, the drop returns Success.
C15_RisingTimeoutNotFatal ==
    \A r \in Reqs :
      (Validated(r) /\ SlotOf(r).kind = "GPIO" /\ SlotOf(r).cam
         /\ Has(r, "energize", TRUE))
      => /\ IsPrefix(OpNames(MotorSteps(r)),
                     <<"energize", "wait_rise", "wait_fall", "deenergize">>)
         /\ pc[r] = "fall" => result[r] = "Success"
         /\ Returned(r) =>
              /\ Len(MotorSteps(r)) = 4
              /\ (Has(r, "wait_fall", TRUE) /\ Has(r, "deenergize", TRUE))
                   => result[r] = "Success"

C15_Witness ==
    \E r \in Reqs :
      /\ Returned(r) /\ Validated(r) /\ SlotOf(r).kind = "GPIO" /\ SlotOf(r).cam
      /\ Has(r, "energize", TRUE) /\ Has(r, "wait_rise", FALSE)
      /\ Gave(r, "wait_fall", "event") /\ Has(r, "deenergize", TRUE)
      /\ result[r] = "Success"

\* the thread runs in the class the Realtime Priority Guard asks for
Elevated(t) == sched[t] = [policy |-> "SCHED_FIFO", priority |-> RtPriority]
\* positions of the operation named op in the transaction of r
At(r, op) == {i \in DOMAIN tx[r] : tx[r][i].op = op}

\* C16: in a transaction on a validated slot the latch-open request (when a
\* latch exists) is the first operation and the acquisition of the guard the
\* next; every energize, wait, hold and de-energize comes after the
\* acquisition and before the release; every write to a vend actuator is made
\* by a thread that is in the elevated class before and after the write; and
\* the release is the last operation, made once all the de-energize writes of
\* the slot have been issued. A transaction leaves the guard only by that
\* release or by the unwinding of a panic at an edge wait, before which it
\* has issued no de-energize write; either way no write of it follows.
C16_StepOrdering ==
    /\ [](\A r \in Reqs : Validated(r) =>
            /\ At(r, "latch_open") \subseteq {1}
            /\ (has_latch /\ tx[r] # <<>>) => At(r, "latch_open") = {1}
            /\ At(r, "rt_acquire") \subseteq {IF has_latch THEN 2 ELSE 1}
            /\ At(r, "rt_release") \subseteq {Len(tx[r])}
            /\ \A i \in DOMAIN tx[r] :
                 IsMotorStep(tx[r][i]) =>
                   \E j \in At(r, "rt_acquire") : j < i
            /\ At(r, "rt_release") # {} =>
                 /\ Returned(r)
                 /\ Len(Deenergizes(r)) = writes_off(SlotOf(r))
            /\ Returned(r) => At(r, "rt_release") # {})
    /\ [][\A r \in Reqs :
            /\ (pc'[r] # pc[r]
                  /\ (vend' # vend \/ (Len(VendWrites(r)') > Len(VendWrites(r)))))
               => (Elevated(worker_of(r)) /\ Elevated(worker_of(r))')
            /\ (pc[r] \in InDrop /\ pc[r] \notin {"drop", "latch", "guard", "returned"}
                  /\ pc'[r] \in {"returned", "done", "panicked", "idle"})
               => /\ vend' = vend
                  /\ \/ /\ pc[r] = "release" /\ pc'[r] = "returned"
                        /\ Len(Deenergizes(r)) = writes_off(SlotOf(r))
                     \/ /\ pc[r] \in {"subscribe", "rise"} /\ pc'[r] = "panicked"
                        /\ Deenergizes(r) = <<>>]_vars

C16_Witness ==
    \E r \in Reqs :
      /\ Returned(r) /\ Validated(r) /\ has_latch
      /\ SlotOf(r).kind = "OWFS"
      /\ OpNames(tx[r]) = <<"latch_open", "rt_acquire", "energize", "hold",
                             "deenergize", "hold", "deenergize", "rt_release">>

\* the values machine::drop returns (DropState / DropError)
Outcomes == {"Success", "MotorFailed", "MotorTimeout", "BadSlot"}
\* no handler of request r is running: not arrived, response sent after drop
\* returned, aborted by a panic, or gone with the process
Over(r) == pc[r] \in {"idle", "done", "panicked"} \/ aborted

\* the kernel refuses SCHED_FIFO priority 10 to thread t: the process lacks
\* the privilege and the thread is not in that class already
ElevationFails(t) ==
    ~rt_allowed /\ sched[t] # [policy |-> "SCHED_FIFO", priority |-> RtPriority]

\* C17 as stated: every drop request that has arrived eventually returns an
\* outcome.
C17_Original ==
    \A r \in Reqs : (pc[r] = "lock") ~> Returned(r)

\* C17 amended: every drop request that has arrived, alone or with others in
\* flight and with the latch worker running, eventually is over: it has
\* returned exactly one of the four outcomes, or it has ended without one. A
\* request ends without an outcome only by a panic of its handler (elevating
\* the scheduling class fails at the acquisition of the guard; the events of
\* the cam line cannot be requested at an edge wait; the open request cannot
\* be sent because the latch worker has died) or with the whole process, which
\* aborts only when a guard that could not elevate a thread in SCHED_IDLE
\* cannot restore the default class either. No wait of the transaction keeps
\* it forever.
C17_Termination ==
    /\ [](\A r \in Reqs : Returned(r) => result[r] \in Outcomes)
    /\ [][/\ \A r \in Reqs :
              (pc[r] # "panicked" /\ pc'[r] = "panicked") =>
                \/ pc[r] = "guard" /\ ElevationFails(worker_of(r))
                \/ pc[r] \in {"subscribe", "rise"}
                \/ pc[r] = "latch" /\ has_latch /\ wpc = "dead"
          /\ (~aborted /\ aborted') =>
                \E r \in Reqs : /\ pc[r] = "guard" /\ ElevationFails(worker_of(r))
                                 /\ sched[worker_of(r)].policy = "SCHED_IDLE"]_vars
    /\ <>[](\A r \in Reqs : Over(r))

C17_Witness ==
    \E r, q \in Reqs :
      /\ pc[q] = "done"
      /\ Returned(r) /\ Validated(r) /\ result[r] \in Outcomes
      /\ pin = 1

\* the process has aborted under a request that waited for the mutex
C17_WitnessAbort ==
    \E r, q \in Reqs : aborted /\ pc[r] = "panicked" /\ pc[q] = "lock"

\* a privileged request on a machine without latch has panicked at an edge
\* wait, its thread is back in the default class and its actuator is on
C17_WitnessWaitPanic ==
    \E r \in Reqs :
      /\ pc[r] = "panicked" /\ rt_allowed /\ ~has_latch /\ lock = 0
      /\ sched[worker_of(r)] = SchedDefault
      /\ \E i \in 1 .. NumSlots : vend[i] = 1

\* a privileged request on a one-wire machine has panicked in Latch::open
\* after the latch worker died on its de-energize write
C17_WitnessLatchPanic ==
    \E r \in Reqs :
      /\ pc[r] = "panicked" /\ rt_allowed /\ lock = 0
      /\ slots[1].kind = "OWFS"
      /\ wpc = "dead" /\ pin = 1

\* pcs of a request between the acquisition and the release of the guard
UnderGuard == {"energize", "subscribe", "rise", "fall", "hold", "deenergize", "hold2",
               "deenergize2", "release"}

\* C18: when elevating the scheduling class fails at the acquisition of the
\* guard, that step aborts the transaction: the request is left without an
\* outcome and stays so, no vend write has been or is issued and no vend line
\* changes, while the latch-open request (when a latch exists) has already
\* been sent; a transaction gets under the guard only by an acquisition that
\* did not fail.
C18_SchedFailureFatal ==
    [][\A r \in Reqs :
         /\ (pc[r] = "guard" /\ pc'[r] # "guard" /\ ElevationFails(worker_of(r)))
              => /\ pc'[r] = "panicked"
                 /\ result'[r] \notin Outcomes
                 /\ VendWrites(r) = <<>> /\ VendWrites(r)' = <<>>
                 /\ vend' = vend
                 /\ has_latch => (Has(r, "latch_open", TRUE) /\ sent # <<>> /\ sent' = sent)
         /\ pc[r] = "panicked" => pc'[r] = "panicked"
         /\ (pc[r] \notin UnderGuard /\ pc'[r] \in UnderGuard)
              => (pc[r] = "guard" /\ ~ElevationFails(worker_of(r)))]_vars

C18_Witness ==
    \E r \in Reqs :
      /\ pc[r] = "panicked" /\ ~rt_allowed /\ ~aborted
      /\ has_latch /\ Len(sent) = 1
      /\ \A i \in DOMAIN vend : vend[i] = 0

\* the same where the guard cannot go back to SCHED_OTHER either: the process
\* has aborted with the request
C18_WitnessAbort ==
    \E r \in Reqs :
      /\ pc[r] = "panicked" /\ aborted
      /\ has_latch /\ Len(sent) = 1

\* C19: when a drop on a validated slot has returned, the last write it issued
\* to the vend actuator of the slot was a de-energize; if it returned Success
\* the line is de-energized; and if the line is energized, a de-energize write
\* of the transaction failed and the drop returned MotorFailed.
C19_LastWriteDeenergize ==
    \A r \in Reqs :
      (Returned(r) /\ Validated(r)) =>
        /\ VendWrites(r) # <<>>
        /\ VendWrites(r)[Len(VendWrites(r))].op = "deenergize"
        /\ \A i \in DOMAIN VendWrites(r) : VendWrites(r)[i].arg = req_slot[r]
        /\ result[r] = "Success" => vend[req_slot[r]] = 0
        /\ vend[req_slot[r]] = 1 =>
             (Has(r, "deenergize", FALSE) /\ result[r] = "MotorFailed")

C19_Witness ==
    \E r \in Reqs :
      /\ Returned(r) /\ Validated(r)
      /\ Has(r, "energize", TRUE) /\ Has(r, "deenergize", FALSE)
      /\ vend[req_slot[r]] = 1
      /\ result[r] = "MotorFailed"

\* the requests whose transaction is between acquiring and releasing the guard
Guarded == {r \in Reqs : pc[r] \in UnderGuard}

\* the GPIO vend lines that are energized: ConfigData::new requests each of
\* them with value 0, so a drop has energized every one of them
EnergizedByDrop == {i \in 1 .. NumSlots : slots[i].kind = "GPIO" /\ vend[i] = 1}

\* C20 as stated: at most one transaction is between acquiring and releasing
\* the guard, at most one slot's vend actuator is energized by a drop, and a
\* transaction under the guard runs on a thread in the elevated class.
C20_Original ==
    /\ Cardinality(Guarded) <= 1
    /\ Cardinality(EnergizedByDrop) <= 1
    /\ \A r \in Guarded : Elevated(worker_of(r))

\* C20 amended: however many drop requests are in flight, at most one
\* transaction is between acquiring and releasing the guard; at most one slot
\* is being actuated by a transaction in progress, its line is on, and a vend
\* line goes on only by the energize write of the one transaction under the
\* guard, which changes no other line. A transaction leaves the guard with
\* its line on only when a de-energize write of it failed (it returns
\* MotorFailed) or when it panicked at an edge wait, and such a line can stay
\* on while a later transaction energizes another slot. The thread of a
\* transaction under the guard is in the elevated class: a thread leaves that
\* class only by the release, or the unwinding, of the transaction that is
\* under the guard on it, which leaves no transaction under the guard, and
\* enters it only by an acquisition.
C20_MutualExclusion ==
    /\ [](/\ Cardinality(Guarded) <= 1
          /\ Cardinality({req_slot[r] : r \in {q \in Reqs : Actuating(q)}}) <= 1
          /\ \A r \in Reqs : Actuating(r) => vend[req_slot[r]] = 1
          /\ \A r \in Guarded : Elevated(worker_of(r)) /\ lock = r)
    /\ [][/\ \A t \in Threads :
              /\ (Elevated(t) /\ ~Elevated(t)') =>
                    /\ \E r \in Guarded : /\ worker_of(r) = t
                                          /\ pc[r] \in {"release", "subscribe", "rise"}
                    /\ Guarded' = {}
              /\ (~Elevated(t) /\ Elevated(t)') =>
                    \E r \in Reqs : worker_of(r) = t /\ pc[r] = "guard" /\ Guarded' = {r}
          /\ \A i \in 1 .. NumSlots :
              (vend[i] = 0 /\ vend'[i] = 1) =>
                /\ \E r \in Reqs : Guarded = {r} /\ pc[r] = "energize" /\ req_slot[r] = i
                /\ \A j \in 1 .. NumSlots : j # i => vend'[j] = vend[j]
          /\ \A r \in Reqs :
              (pc[r] \in UnderGuard /\ pc'[r] \notin UnderGuard
                 /\ vend'[req_slot[r]] = 1) =>
                \/ pc'[r] = "panicked" /\ pc[r] \in {"subscribe", "rise"}
                \/ /\ pc'[r] = "returned"
                   /\ Has(r, "deenergize", FALSE)
                   /\ result'[r] = "MotorFailed"]_vars

C20_Witness ==
    \E r, q \in Reqs :
      /\ Actuating(r) /\ Elevated(worker_of(r))
      /\ q # r /\ pc[q] = "lock"
      /\ Guarded = {r}

\* a transaction actuates one slot while the line of another, left on by the
\* failed de-energize write of a transaction that has returned, is still on
C20_WitnessLeftOn ==
    \E r, q \in Reqs :
      /\ Actuating(r) /\ Guarded = {r}
      /\ pc[q] = "done"
      /\ EnergizedByDrop = 1 .. NumSlots

====
